---- MODULE Spec2Model ----
(***************************************************************************)
(* QuickBudgetBuilder: the budget optimizer (BudgetOptimizer), the oracle  *)
(* it delegates to (GeminiService.optimizeOutfitForBudget) and the product *)
(* storage both read.  Prices are whole currency units.                    *)
(***************************************************************************)
EXTENDS Integers, Sequences, FiniteSets, TLC

(* ---- bounds of the model ---- *)
MaxCatalog == 4
MaxProducts == 2
MaxSwaps == 2
MaxCalls == 2
MaxConcSwaps == 1
MaxRecommendations == 1
MaxTryOns == 2

(* ---- data ---- *)
Product(id, category, price) == [id |-> id, category |-> category, price |-> price]

\* The products the seeding loop inserts, in the order it inserts them.
SeedProducts ==
  << Product("A", "top", 40), Product("B", "shoes", 60),
     Product("A1", "top", 25), Product("A2", "top", 15),
     Product("B2", "shoes", 30), Product("B3", "shoes", 30) >>

\* Budgets a request may carry (req.body.budget is not validated).
Budgets == {-10, 0, 50, 70}

\* An id no product has.
UnknownId == "none"

NoResult ==
  [optimizedProducts |-> <<>>, totalCost |-> 0, savings |-> 0, swapsMade |-> <<>>]

OracleErrors == {"noCredential", "request", "parse"}

VARIABLES
  genAI,              \* TRUE iff the Gemini client was created (GEMINI_API_KEY set)
  catalog,            \* rows of the products table, in table order
  seedPos,            \* index of the last seed product the seeding loop inserted
  pc,                 \* position of the optimizeForBudget call
  products,           \* argument: the caller's product list
  budget,             \* argument
  availableProducts,  \* catalog snapshot handed to the oracle
  swaps,              \* resultData.swaps of the parsed oracle reply
  error,              \* the error caught by optimizeForBudget's catch
  allProducts,        \* catalog snapshot read by the fallback
  i,                  \* fallback loop index (0-based)
  optimizedProducts,  \* fallback working copy
  swapsMade,          \* fallback swap list
  result,             \* the value the call resolved with
  ret,                \* which return statement produced it
  query,              \* the last getBudgetStatus call: its arguments and its value
  calls,              \* the frames of the invocations that run side by side
  reply,              \* the last text given to parseJsonFromResponse and its outcome
  outfits,            \* the last generateOutfits call and the outfits it returned
  imageCache,         \* AIImageGenerator.imageCache, entries in insertion order
  tryOn,              \* the generateTryOnImage calls in flight
  route               \* the POST /api/outfit/:id/optimize request being handled

\* The state of the other services.
sideVars == <<reply, outfits, imageCache, tryOn, route>>

callVars == <<pc, products, budget, availableProducts, swaps, error, allProducts,
              i, optimizedProducts, swapsMade, result, ret>>
vars == <<sideVars, calls, query, genAI, catalog, seedPos, pc, products, budget, availableProducts, swaps,
          error, allProducts, i, optimizedProducts, swapsMade, result, ret>>

(* ---- pure helpers ---- *)

\* products.reduce((sum, p) => sum + p.price, 0)
RECURSIVE SumPrices(_)
SumPrices(ps) ==
  IF ps = <<>> THEN 0 ELSE ps[1].price + SumPrices(Tail(ps))

\* Array.prototype.findIndex by id, 1-based; 0 when there is none.
RECURSIVE FindIndexFrom(_, _, _)
FindIndexFrom(ps, id, k) ==
  IF k > Len(ps) THEN 0
  ELSE IF ps[k].id = id THEN k
  ELSE FindIndexFrom(ps, id, k + 1)

FindIndex(ps, id) == FindIndexFrom(ps, id, 1)

Ids(ps) == {ps[k].id : k \in 1..Len(ps)}

Range(ps) == {ps[k] : k \in 1..Len(ps)}

SeqsUpTo(S, n) == UNION {[1..m -> S] : m \in 0..n}

(* ---- BudgetOptimizer: pure parts ---- *)

\* Variant: the fast path is gone; only the oracle's own check is left.
AlreadyWithinBudget_Never(currentCost, b) == FALSE

\* Variant: the comparison is strict.
AlreadyWithinBudget_Strict(currentCost, b) == currentCost < b

\* optimizeForBudget, `if (currentCost <= budget)`
AlreadyWithinBudget(currentCost, b) == currentCost <= b

\* optimizeForBudget, the no-op return value
NoOpResult(ps, currentCost) ==
  [optimizedProducts |-> ps, totalCost |-> currentCost, savings |-> 0,
   swapsMade |-> <<>>]

\* Variant: a parse error is rethrown to the caller instead of being handled.
CatchTarget_RethrowsParse(err) ==
  IF err = "parse" THEN "rejected" ELSE "fallbackGetAllProducts"

\* optimizeForBudget, `catch (error) { ... return this.optimizeForBudgetFallback(...) }`:
\* where the call continues after catching err.
CatchTarget(err) == "fallbackGetAllProducts"

\* Variant: the category is not compared.
IsAlternative_AnyCategory(alt, product) ==
  /\ alt.price < product.price
  /\ alt.id /= product.id

\* Variant: `<=` instead of `<` on the price.
IsAlternative_NotStrict(alt, product) ==
  /\ alt.category = product.category
  /\ alt.price <= product.price
  /\ alt.id /= product.id

\* findBudgetAlternatives: allProducts.filter(...)
IsAlternative(alt, product) ==
  /\ alt.category = product.category
  /\ alt.price < product.price
  /\ alt.id /= product.id

findBudgetAlternatives(product, all) ==
  SelectSeq(all, LAMBDA alt : IsAlternative(alt, product))

\* Variant: `<=` instead of `<`, so the last of several cheapest wins.
RECURSIVE ReduceBest_LastOnTie(_, _)
ReduceBest_LastOnTie(best, rest) ==
  IF rest = <<>> THEN best
  ELSE ReduceBest_LastOnTie(IF rest[1].price <= best.price THEN rest[1] ELSE best,
                            Tail(rest))

\* Variant: `>` instead of `<`, so the dearest alternative wins.
RECURSIVE ReduceBest_Dearest(_, _)
ReduceBest_Dearest(best, rest) ==
  IF rest = <<>> THEN best
  ELSE ReduceBest_Dearest(IF rest[1].price > best.price THEN rest[1] ELSE best,
                          Tail(rest))

\* Variant: the first alternative is taken, whatever its price.
ReduceBest_KeepsFirst(best, rest) == best

\* alternatives.reduce((best, alt) => alt.price < best.price ? alt : best)
RECURSIVE ReduceBest(_, _)
ReduceBest(best, rest) ==
  IF rest = <<>> THEN best
  ELSE ReduceBest(IF rest[1].price < best.price THEN rest[1] ELSE best, Tail(rest))

BestAlternative(alternatives) == ReduceBest(alternatives[1], Tail(alternatives))

\* Variant: the index is not advanced.
NextIndex_Stay(k) == k

\* optimizeForBudgetFallback, `for (let i = 0; ...; i++)`
NextIndex(k) == k + 1

\* Variant: the loop breaks after the first swap whatever the new cost.
BudgetReached_Always(newCost, b) == TRUE

\* optimizeForBudgetFallback, `if (newCost <= budget) break`
BudgetReached(newCost, b) == newCost <= b

\* Variant: the working copy is the caller's array itself (no spread).
CallerListAfterFallbackWrite_Aliased(ps, optimized) == optimized

\* optimizeForBudgetFallback, `let optimizedProducts = [...products]`: the
\* working copy is a fresh array, so after `optimizedProducts[i] = ...` made it
\* `optimized` the caller's array ps is what it was.
CallerListAfterFallbackWrite(ps, optimized) == ps

\* optimizeForBudgetFallback, the returned object
FallbackResult(ps, optimized, made) ==
  [optimizedProducts |-> optimized,
   totalCost |-> SumPrices(optimized),
   savings |-> SumPrices(ps) - SumPrices(optimized),
   swapsMade |-> made]

\* Variant: the swap is recorded but the working copy is not updated.
FallbackBody_SwapNotWritten(optimized, made, k, all, b) ==
  LET product == optimized[k + 1]
      alternatives == findBudgetAlternatives(product, all)
      bestAlternative == BestAlternative(alternatives)
      savings == product.price - bestAlternative.price
  IN  IF alternatives /= <<>> /\ savings > 0
      THEN [optimizedProducts |-> optimized,
            swapsMade |-> Append(made, [original |-> product,
                                        replacement |-> bestAlternative,
                                        savings |-> savings]),
            break |-> BudgetReached(SumPrices(optimized), b)]
      ELSE [optimizedProducts |-> optimized, swapsMade |-> made, break |-> FALSE]

\* One pass of the fallback's for-loop body at 0-based index k: the loop state
\* after it, and whether it left the loop by `break`.
FallbackBody(optimized, made, k, all, b) ==
  LET product == optimized[k + 1]
      alternatives == findBudgetAlternatives(product, all)
      bestAlternative == BestAlternative(alternatives)
      savings == product.price - bestAlternative.price
      swapped == [optimized EXCEPT ![k + 1] = bestAlternative]
  IN  IF alternatives /= <<>> /\ savings > 0
      THEN [optimizedProducts |-> swapped,
            swapsMade |-> Append(made, [original |-> product,
                                        replacement |-> bestAlternative,
                                        savings |-> savings]),
            break |-> BudgetReached(SumPrices(swapped), b)]
      ELSE [optimizedProducts |-> optimized, swapsMade |-> made, break |-> FALSE]

\* The whole fallback on product list ps with catalog snapshot all: the loop
\* from index k on, then the returned object.
RECURSIVE FallbackLoop(_, _, _, _, _, _)
FallbackLoop(ps, optimized, made, k, all, b) ==
  IF k >= Len(optimized) THEN FallbackResult(ps, optimized, made)
  ELSE LET after == FallbackBody(optimized, made, k, all, b)
       IN  IF after.break
           THEN FallbackResult(ps, after.optimizedProducts, after.swapsMade)
           ELSE FallbackLoop(ps, after.optimizedProducts, after.swapsMade,
                             k + 1, all, b)

optimizeForBudgetFallback(ps, b, all) == FallbackLoop(ps, ps, <<>>, 0, all, b)

(* ---- BudgetOptimizer: the read-only queries ---- *)

\* A JavaScript number that is a quotient of two integers (den > 0), or NaN.
Number(n, d) == [nan |-> FALSE, num |-> n, den |-> d]
NaN == [nan |-> TRUE, num |-> 0, den |-> 1]
Hundred == Number(100, 1)

\* (totalCost / budget) * 100
Percent(totalCost, b) ==
  IF b > 0 THEN Number(totalCost * 100, b)
  ELSE IF b < 0 THEN Number(-(totalCost * 100), -b)
  ELSE IF totalCost = 0 THEN NaN
  ELSE Number(totalCost * 100 + 100, 1)   \* Infinity: any value above 100 serves

\* Math.min(x, y); NaN if either is NaN
MathMin(x, y) ==
  IF x.nan \/ y.nan THEN NaN
  ELSE IF x.num * y.den <= y.num * x.den THEN x ELSE y

\* Variant: the clamp is missing.
calculateBudgetUtilization_Unclamped(ps, b) == Percent(SumPrices(ps), b)

calculateBudgetUtilization(ps, b) == MathMin(Percent(SumPrices(ps), b), Hundred)

\* Variant: the comparison is strict.
getBudgetStatus_Strict(ps, b) ==
  [isWithinBudget |-> SumPrices(ps) < b,
   totalCost |-> SumPrices(ps),
   remaining |-> b - SumPrices(ps),
   utilizationPercent |-> calculateBudgetUtilization(ps, b)]

getBudgetStatus(ps, b) ==
  [isWithinBudget |-> SumPrices(ps) <= b,
   totalCost |-> SumPrices(ps),
   remaining |-> b - SumPrices(ps),
   utilizationPercent |-> calculateBudgetUtilization(ps, b)]

NoQuery ==
  [asked |-> FALSE, products |-> <<>>, budget |-> 0,
   status |-> [isWithinBudget |-> FALSE, totalCost |-> 0, remaining |-> 0,
               utilizationPercent |-> NaN]]

(* ---- GeminiService.optimizeOutfitForBudget: pure parts ---- *)

Swap(o, r) == [original_product_id |-> o, replacement_product_id |-> r]

\* Variant: the replacement is pushed onto the working copy instead of
\* taking the original's place.
ApplySwap_Appends(st, swap, ps, available) ==
  LET oi == FindIndex(ps, swap.original_product_id)
      ri == FindIndex(available, swap.replacement_product_id)
  IN  IF oi /= 0 /\ ri /= 0
      THEN LET originalProduct == ps[oi]
               replacementProduct == available[ri]
               index == FindIndex(st.optimizedProducts, originalProduct.id)
               savings == originalProduct.price - replacementProduct.price
           IN  IF index /= 0
               THEN [optimizedProducts |->
                       Append(st.optimizedProducts, replacementProduct),
                     totalSavings |-> st.totalSavings + savings,
                     swapsMade |-> Append(st.swapsMade,
                                          [original |-> originalProduct,
                                           replacement |-> replacementProduct,
                                           savings |-> savings])]
               ELSE st
      ELSE st

\* Variant: the savings are added before the index check, so a swap whose
\* original is no longer in the working copy still counts.
ApplySwap_CountsUnapplied(st, swap, ps, available) ==
  LET oi == FindIndex(ps, swap.original_product_id)
      ri == FindIndex(available, swap.replacement_product_id)
  IN  IF oi /= 0 /\ ri /= 0
      THEN LET originalProduct == ps[oi]
               replacementProduct == available[ri]
               index == FindIndex(st.optimizedProducts, originalProduct.id)
               savings == originalProduct.price - replacementProduct.price
           IN  IF index /= 0
               THEN [optimizedProducts |->
                       [st.optimizedProducts EXCEPT ![index] = replacementProduct],
                     totalSavings |-> st.totalSavings + savings,
                     swapsMade |-> Append(st.swapsMade,
                                          [original |-> originalProduct,
                                           replacement |-> replacementProduct,
                                           savings |-> savings])]
               ELSE [st EXCEPT !.totalSavings = @ + savings]
      ELSE st

\* Variant: only the original is validated; a replacement id that matches
\* nothing leaves the original in place and the swap is recorded all the same.
ApplySwap_KeepsUnresolved(st, swap, ps, available) ==
  LET oi == FindIndex(ps, swap.original_product_id)
      ri == FindIndex(available, swap.replacement_product_id)
  IN  IF oi /= 0
      THEN LET originalProduct == ps[oi]
               replacementProduct == IF ri /= 0 THEN available[ri] ELSE originalProduct
               index == FindIndex(st.optimizedProducts, originalProduct.id)
               savings == originalProduct.price - replacementProduct.price
           IN  IF index /= 0
               THEN [optimizedProducts |->
                       [st.optimizedProducts EXCEPT ![index] = replacementProduct],
                     totalSavings |-> st.totalSavings + savings,
                     swapsMade |-> Append(st.swapsMade,
                                          [original |-> originalProduct,
                                           replacement |-> replacementProduct,
                                           savings |-> savings])]
               ELSE st
      ELSE st

\* The body of `for (const swap of swaps)`; st is the loop state.
ApplySwap(st, swap, ps, available) ==
  LET oi == FindIndex(ps, swap.original_product_id)
      ri == FindIndex(available, swap.replacement_product_id)
  IN  IF oi /= 0 /\ ri /= 0
      THEN LET originalProduct == ps[oi]
               replacementProduct == available[ri]
               index == FindIndex(st.optimizedProducts, originalProduct.id)
               savings == originalProduct.price - replacementProduct.price
           IN  IF index /= 0
               THEN [optimizedProducts |->
                       [st.optimizedProducts EXCEPT ![index] = replacementProduct],
                     totalSavings |-> st.totalSavings + savings,
                     swapsMade |-> Append(st.swapsMade,
                                          [original |-> originalProduct,
                                           replacement |-> replacementProduct,
                                           savings |-> savings])]
               ELSE st
      ELSE st

RECURSIVE ApplySwaps(_, _, _, _)
ApplySwaps(st, batch, ps, available) ==
  IF batch = <<>> THEN st
  ELSE ApplySwaps(ApplySwap(st, batch[1], ps, available), Tail(batch), ps, available)

\* Variant: totalCost is taken from the input list, not from the working copy.
GeminiResult_StaleTotal(st) ==
  [optimizedProducts |-> st.optimizedProducts,
   totalCost |-> SumPrices(products),
   savings |-> st.totalSavings,
   swapsMade |-> st.swapsMade]

\* GeminiService.optimizeOutfitForBudget, `let optimizedProducts = [...products]`:
\* the swaps are written to a fresh array, the caller's array ps stays.
CallerListAfterOracleWrites(ps, optimized) == ps

\* The returned object, from the loop state after the last swap.
GeminiResult(st) ==
  [optimizedProducts |-> st.optimizedProducts,
   totalCost |-> SumPrices(st.optimizedProducts),
   savings |-> st.totalSavings,
   swapsMade |-> st.swapsMade]

optimizeOutfitForBudget(ps, batch, available) ==
  GeminiResult(ApplySwaps([optimizedProducts |-> ps, totalSavings |-> 0,
                           swapsMade |-> <<>>], batch, ps, available))

\* Variant: a reply that led to no swap is handed to the fallback.
AfterOracleReply_FallsThrough(res) ==
  IF res.swapsMade = <<>> THEN "fallbackGetAllProducts" ELSE "returned"

\* optimizeForBudget, `return { optimizedProducts: optimization.optimizedProducts, ... }`:
\* where the call goes once the oracle's result res is there.
AfterOracleReply(res) == "returned"

\* The swap lists a reply may carry, up to the ids that resolve differently:
\* an id that matches nothing stands for every such id.
ProposedSwaps(ps, available) ==
  {Swap(o, r) : o \in Ids(ps) \cup {UnknownId}, r \in Ids(available) \cup {UnknownId}}

(* ---- OutfitGenerator: the rule-based swap suggestions ---- *)

calculateTotalCost(ps) == SumPrices(ps)

\* Variant: `<=` instead of `<`, so the last of several cheapest wins.
RECURSIVE ReduceCheapest_LastOnTie(_, _)
ReduceCheapest_LastOnTie(min, rest) ==
  IF rest = <<>> THEN min
  ELSE ReduceCheapest_LastOnTie(IF rest[1].price <= min.price THEN rest[1] ELSE min,
                                Tail(rest))

\* alternatives.reduce((min, alt) => alt.price < min.price ? alt : min)
RECURSIVE ReduceCheapest(_, _)
ReduceCheapest(min, rest) ==
  IF rest = <<>> THEN min
  ELSE ReduceCheapest(IF rest[1].price < min.price THEN rest[1] ELSE min, Tail(rest))

\* findSwapSuggestions, the filter inside forEach
SuggestionAlternatives(product, all) ==
  SelectSeq(all, LAMBDA alt : /\ alt.category = product.category
                              /\ alt.price < product.price
                              /\ alt.id /= product.id)

\* findSwapSuggestions, the forEach over products from position k on
RECURSIVE SuggestionsFrom(_, _, _)
SuggestionsFrom(ps, all, k) ==
  IF k > Len(ps) THEN <<>>
  ELSE LET product == ps[k]
           alternatives == SuggestionAlternatives(product, all)
           cheapest == ReduceCheapest(alternatives[1], Tail(alternatives))
       IN  IF alternatives /= <<>>
           THEN <<[originalProduct |-> product,
                   suggestedProduct |-> cheapest,
                   savings |-> product.price - cheapest.price]>>
                  \o SuggestionsFrom(ps, all, k + 1)
           ELSE SuggestionsFrom(ps, all, k + 1)

findSwapSuggestions(ps, b, all) ==
  IF calculateTotalCost(ps) <= b THEN <<>> ELSE SuggestionsFrom(ps, all, 1)

(* ---- OpenAIService: what the outfit generator takes from it ---- *)

\* generateOutfitRecommendations, `outfit.product_ids.map(id =>
\* filteredProducts.find(...)).filter(Boolean)`: ids that match nothing drop out.
RECURSIVE ResolveIds(_, _)
ResolveIds(ids, filtered) ==
  IF ids = <<>> THEN <<>>
  ELSE IF FindIndex(filtered, ids[1]) = 0 THEN ResolveIds(Tail(ids), filtered)
  ELSE <<filtered[FindIndex(filtered, ids[1])]>> \o ResolveIds(Tail(ids), filtered)

\* generateOutfitRecommendations, the object built for one outfit of the
\* reply: totalCost is the reply's total_cost.
AIRecommendation(outfit, filtered) ==
  [products |-> ResolveIds(outfit.product_ids, filtered),
   totalCost |-> outfit.total_cost]

\* OpenAIService.optimizeOutfitForBudget, swapsMade of the returned object:
\* the early return within budget, else the reply's swaps applied by the same
\* loop as GeminiService's.
OpenAISwapsMade(ps, b, batch, available) ==
  IF SumPrices(ps) <= b THEN <<>>
  ELSE ApplySwaps([optimizedProducts |-> ps, totalSavings |-> 0, swapsMade |-> <<>>],
                  batch, ps, available).swapsMade

(* ---- OutfitGenerator.generateOutfits ---- *)

Undefined == [defined |-> FALSE, list |-> <<>>]
Defined(list) == [defined |-> TRUE, list |-> list]

GeneratedOutfit(ps, totalCost, isUnderBudget, swapSuggestions) ==
  [products |-> ps, totalCost |-> totalCost, isUnderBudget |-> isUnderBudget,
   swapSuggestions |-> swapSuggestions]

\* The body of `for (const recommendation of aiRecommendations)`; opt is the
\* outcome of the optimisation call made for an outfit over budget.
OutfitFromRecommendation(recommendation, opt, b, all) ==
  LET isUnderBudget == recommendation.totalCost <= b
  IN  GeneratedOutfit(
        recommendation.products, recommendation.totalCost, isUnderBudget,
        IF isUnderBudget THEN Undefined
        ELSE IF opt.throws
        THEN Defined(findSwapSuggestions(recommendation.products, b, all))
        ELSE Defined(OpenAISwapsMade(recommendation.products, b, opt.swaps, all)))

categorizeProducts(ps) ==
  [c \in {"dress", "top", "bottom", "shoes", "accessories"} |->
     SelectSeq(ps, LAMBDA p : p.category = c)]

\* generateOutfitCombinations: `if (accessories) outfit.push(accessories)`
WithAccessories(outfit, categorized) ==
  IF categorized["accessories"] = <<>> THEN outfit
  ELSE Append(outfit, categorized["accessories"][1])

DressOutfits(categorized) ==
  IF categorized["shoes"] = <<>> THEN <<>>
  ELSE [k \in 1..Len(categorized["dress"]) |->
          WithAccessories(<<categorized["dress"][k], categorized["shoes"][1]>>,
                          categorized)]

TopBottomOutfits(categorized) ==
  LET tops == categorized["top"]
      bottoms == categorized["bottom"]
  IN  IF categorized["shoes"] = <<>> \/ bottoms = <<>> THEN <<>>
      ELSE [k \in 1..(Len(tops) * Len(bottoms)) |->
              WithAccessories(<<tops[((k - 1) \div Len(bottoms)) + 1],
                                bottoms[((k - 1) % Len(bottoms)) + 1],
                                categorized["shoes"][1]>>, categorized)]

\* combinations.slice(0, 3)
MaxCombinations == 3

generateOutfitCombinations(categorized) ==
  LET combinations == DressOutfits(categorized) \o TopBottomOutfits(categorized)
  IN  SubSeq(combinations, 1,
             IF Len(combinations) < MaxCombinations THEN Len(combinations)
             ELSE MaxCombinations)

\* generateOutfitsFallback, on the products found for the occasion, size and colour
generateOutfitsFallback(ps, b) ==
  LET combinations == generateOutfitCombinations(categorizeProducts(ps))
  IN  [k \in 1..Len(combinations) |->
         LET totalCost == calculateTotalCost(combinations[k])
             isUnderBudget == totalCost <= b
         IN  GeneratedOutfit(combinations[k], totalCost, isUnderBudget,
                             IF ~isUnderBudget
                             THEN Defined(findSwapSuggestions(combinations[k], b, ps))
                             ELSE Undefined)]

NoOutfits == [path |-> "none", budget |-> 0, list |-> <<>>]

(* ---- AIImageGenerator ---- *)

\* private readonly maxCacheSize = 100
maxCacheSize == 100

\* Strings of the try-on parameters are pairs <<kind, n>>: user photo n,
\* avatar id "avatar_n"; None is the absent (undefined) parameter.
None == <<"none", 0>>
Photo(n) == <<"photo", n>>
Avatar(n) == <<"avatar", n>>

TryOnGenerationParams(userPhoto, avatarId, ps, occasion) ==
  [userPhoto |-> userPhoto, avatarId |-> avatarId, products |-> ps,
   occasion |-> occasion]

\* The order Array.prototype.sort() puts the product ids in.
IdOrder == <<"A", "A1", "A2", "B", "B2", "B3">>

IdRank(id) == CHOOSE k \in 1..Len(IdOrder) : IdOrder[k] = id

RECURSIVE InsertSorted(_, _)
InsertSorted(id, sorted) ==
  IF sorted = <<>> THEN <<id>>
  ELSE IF IdRank(id) <= IdRank(sorted[1]) THEN <<id>> \o sorted
  ELSE <<sorted[1]>> \o InsertSorted(id, Tail(sorted))

RECURSIVE SortIds(_)
SortIds(ids) ==
  IF ids = <<>> THEN <<>> ELSE InsertSorted(ids[1], SortIds(Tail(ids)))

\* `${baseId}_${productIds}_${params.occasion}`, as its three parts
getCacheKey(params) ==
  [baseId |-> IF params.userPhoto /= None THEN <<"user_photo", 0>>
              ELSE IF params.avatarId /= None THEN params.avatarId
              ELSE <<"no_avatar", 0>>,
   productIds |-> SortIds([k \in 1..Len(params.products) |-> params.products[k].id]),
   occasion |-> params.occasion]

\* getAvatarImage: avatar_1 .. avatar_8 have an image, any other id gets avatar_1's
getAvatarImage(avatarId) ==
  IF avatarId /= None /\ avatarId[2] \in 1..8 THEN <<"avatar image", avatarId[2]>>
  ELSE <<"avatar image", 1>>

\* params.userPhoto || (await this.getAvatarImage(params.avatarId))
BaseImage(params) ==
  IF params.userPhoto /= None THEN params.userPhoto
  ELSE getAvatarImage(params.avatarId)

\* generateOutfitVisualizationWithBase: the image made from the base image,
\* the products and the occasion, named by what it shows.
generateOutfitVisualizationWithBase(baseImage, ps, occasion) ==
  [baseImage |-> baseImage, products |-> ps, occasion |-> occasion]

\* this.imageCache.get(key): position of the entry, 0 if none.
RECURSIVE CacheIndexFrom(_, _, _)
CacheIndexFrom(cache, key, k) ==
  IF k > Len(cache) THEN 0
  ELSE IF cache[k].key = key THEN k
  ELSE CacheIndexFrom(cache, key, k + 1)

CacheIndex(cache, key) == CacheIndexFrom(cache, key, 1)

\* Map.prototype.set: a present key keeps its place, a new one goes last.
MapSet(cache, key, imageUrl) ==
  IF CacheIndex(cache, key) /= 0
  THEN [cache EXCEPT ![CacheIndex(cache, key)] = [key |-> key, imageUrl |-> imageUrl]]
  ELSE Append(cache, [key |-> key, imageUrl |-> imageUrl])

\* Variant: `>` instead of `>=`.
cacheImage_EvictsLate(cache, key, imageUrl) ==
  MapSet(IF Len(cache) > maxCacheSize THEN Tail(cache) ELSE cache, key, imageUrl)

\* cacheImage: the first key of the map is deleted when the map is full, then
\* the entry is set.
cacheImage(cache, key, imageUrl) ==
  MapSet(IF Len(cache) >= maxCacheSize THEN Tail(cache) ELSE cache, key, imageUrl)

TryOns == 1..MaxTryOns

IdleTryOn ==
  [pc |-> "idle", params |-> TryOnGenerationParams(None, None, <<>>, ""),
   fromCache |-> FALSE,
   imageUrl |-> generateOutfitVisualizationWithBase(None, <<>>, "")]

(* ---- POST /api/outfit/:id/optimize and its middleware ---- *)

\* The users table: user id -> onboarding_completed.  Other ids have no row.
Users == [u \in 1..3 |-> u /= 3]

\* The outfits table: outfit id -> user_id.  Other ids have no row.
Outfits == [o \in 1..2 |-> o]

\* req.session?.userId of a request without a session
NoSession == 0

NoUser == [id |-> 0, onboarding_completed |-> FALSE]
NoOutfit == [id |-> 0, user_id |-> 0]

\* storage.getUserById / storage.getOutfitById when they resolve
getUserById(id) ==
  IF id \in DOMAIN Users THEN [id |-> id, onboarding_completed |-> Users[id]]
  ELSE NoUser

getOutfitById(id) ==
  IF id \in DOMAIN Outfits THEN [id |-> id, user_id |-> Outfits[id]] ELSE NoOutfit

\* requireAuth: `!req.session?.userId`
Unauthenticated(userId) == userId = NoSession

\* requireOnboarding: `!req.user?.onboarding_completed`
NotOnboarded(user) == user = NoUser \/ ~user.onboarding_completed

\* Variant: the owner is not compared.
OutfitMissing_AnyOwner(outfit, userId) == outfit = NoOutfit

\* the handler: `!outfit || outfit.user_id !== userId`
OutfitMissing(outfit, userId) == outfit = NoOutfit \/ outfit.user_id /= userId

NoRequest ==
  [pc |-> "none", userId |-> NoSession, id |-> 0, user |-> NoUser,
   outfit |-> NoOutfit, status |-> 0, invoked |-> FALSE]

(* ---- GeminiService.parseJsonFromResponse ---- *)

\* A reply text is a sequence of tokens: prose words, code fences, JSON
\* punctuation, the key "swaps" and swap objects.
NoSwap == Swap("", "")
Tok(t) == [t |-> t, swap |-> NoSwap]
SwapTok(sw) == [t |-> "swap", swap |-> sw]

\* "fence" is a line of three backticks, "fence json" the same with the label.
Fences == {"fence", "fence json"}
IsFence(tok) == tok.t \in Fences

\* Index of the first token from k on whose kind is in kinds, 0 if none.
RECURSIVE FirstFrom(_, _, _)
FirstFrom(text, kinds, k) ==
  IF k > Len(text) THEN 0
  ELSE IF text[k].t \in kinds THEN k
  ELSE FirstFrom(text, kinds, k + 1)

\* Index of the last token up to k whose kind is in kinds, 0 if none.
RECURSIVE LastUpTo(_, _, _)
LastUpTo(text, kinds, k) ==
  IF k < 1 THEN 0
  ELSE IF text[k].t \in kinds THEN k
  ELSE LastUpTo(text, kinds, k - 1)

\* The JSON texts of the model: an array of swap objects, and an object whose
\* one key "swaps" holds such an array.
IsArrayText(text) ==
  /\ Len(text) >= 2
  /\ text[1].t = "["
  /\ text[Len(text)].t = "]"
  /\ \A k \in 2..(Len(text) - 1) : text[k].t = "swap"

IsObjectText(text) ==
  /\ Len(text) >= 5
  /\ text[1].t = "{"
  /\ text[2].t = "swaps:"
  /\ IsArrayText(SubSeq(text, 3, Len(text) - 1))
  /\ text[Len(text)].t = "}"

ArrayItems(text) == [k \in 1..(Len(text) - 2) |-> text[k + 1].swap]

ParseError == [ok |-> FALSE, kind |-> "none", items |-> <<>>]
ArrayValue(items) == [ok |-> TRUE, kind |-> "array", items |-> items]
ObjectValue(items) == [ok |-> TRUE, kind |-> "object", items |-> items]

\* JSON.parse
JSONParse(text) ==
  IF IsObjectText(text) THEN ObjectValue(ArrayItems(SubSeq(text, 3, Len(text) - 1)))
  ELSE IF IsArrayText(text) THEN ArrayValue(ArrayItems(text))
  ELSE ParseError

\* text.match(/```(?:json)?\s*([\s\S]*?)\s*```/)[1]: what stands between the
\* first fence and the next one; <<>> if there is no match or nothing between.
FencedBlock(text) ==
  LET open == FirstFrom(text, Fences, 1)
      close == IF open = 0 THEN 0 ELSE FirstFrom(text, Fences, open + 1)
  IN  IF close = 0 THEN <<>> ELSE SubSeq(text, open + 1, close - 1)

\* text.match(/\[[\s\S]*\]/)[0]: from the first "[" to the last "]".
ArrayPattern(text) ==
  LET open == FirstFrom(text, {"["}, 1)
      close == LastUpTo(text, {"]"}, Len(text))
  IN  IF open = 0 \/ close <= open THEN <<>> ELSE SubSeq(text, open, close)

\* text.match(/\{[\s\S]*\}/)[0]: from the first "{" to the last "}".
ObjectPattern(text) ==
  LET open == FirstFrom(text, {"{"}, 1)
      close == LastUpTo(text, {"}"}, Len(text))
  IN  IF open = 0 \/ close <= open THEN <<>> ELSE SubSeq(text, open, close)

parseJsonFromResponse(text) ==
  IF JSONParse(text).ok THEN JSONParse(text)
  ELSE IF FencedBlock(text) /= <<>> /\ JSONParse(FencedBlock(text)).ok
  THEN JSONParse(FencedBlock(text))
  ELSE IF ArrayPattern(text) /= <<>> /\ JSONParse(ArrayPattern(text)).ok
  THEN JSONParse(ArrayPattern(text))
  ELSE IF ObjectPattern(text) /= <<>> /\ JSONParse(ObjectPattern(text)).ok
  THEN JSONParse(ObjectPattern(text))
  ELSE ParseError

\* `resultData.swaps || []`: an array value has no property "swaps".
SwapsOfReply(value) == IF value.kind = "object" THEN value.items ELSE <<>>

NoReply == [given |-> FALSE, text |-> <<>>, value |-> ParseError, swaps |-> <<>>]

(* ---- invocations side by side: each has its own frame ---- *)

Calls == 1..MaxCalls

\* The parameters and locals of one optimizeForBudget invocation.
IdleFrame ==
  [pc |-> "idle", products |-> <<>>, budget |-> 0, availableProducts |-> <<>>,
   swaps |-> <<>>, error |-> "none", allProducts |-> <<>>, i |-> 0,
   optimizedProducts |-> <<>>, swapsMade |-> <<>>, result |-> NoResult,
   ret |-> "none"]

\* Variant: optimizedProducts and swapsMade are fields of the one exported
\* instance, so every invocation sees the last write.
StoreLocals_InstanceFields(cs, c, f) ==
  [d \in DOMAIN cs |->
     IF d = c THEN f
     ELSE [cs[d] EXCEPT !.optimizedProducts = f.optimizedProducts,
                        !.swapsMade = f.swapsMade]]

\* Invocation c writes its parameters and locals: they live in its own frame
\* (the class has no fields).
StoreLocals(cs, c, f) == [cs EXCEPT ![c] = f]

(* ---- initial state ---- *)

Init ==
  /\ genAI \in BOOLEAN
  /\ catalog = <<>>
  /\ seedPos = 0
  /\ pc = "idle"
  /\ products = <<>>
  /\ budget = 0
  /\ availableProducts = <<>>
  /\ swaps = <<>>
  /\ error = "none"
  /\ allProducts = <<>>
  /\ i = 0
  /\ optimizedProducts = <<>>
  /\ swapsMade = <<>>
  /\ result = NoResult
  /\ ret = "none"
  /\ query = NoQuery
  /\ calls = [c \in Calls |-> IdleFrame]
  /\ reply = NoReply
  /\ outfits = NoOutfits
  /\ imageCache = <<>>
  /\ tryOn = [s \in TryOns |-> IdleTryOn]
  /\ route = NoRequest

(* ---- storage: the seeding loop ---- *)

\* The loop reaches seed product k: storage.createProduct threw for the seed
\* products between the last one handled and k (each is logged and skipped)
\* and succeeds for k.
CreateProduct(k) ==
  /\ k \in (seedPos + 1)..Len(SeedProducts)
  /\ Len(catalog) < MaxCatalog
  /\ catalog' = Append(catalog, SeedProducts[k])
  /\ seedPos' = k
  /\ UNCHANGED <<sideVars, calls, query, genAI, callVars>>

(* ---- BudgetOptimizer.optimizeForBudget ---- *)

\* The call, up to its first await or its no-op return.  The route handler
\* reads every product of the list from storage, so each is a catalog row.
OptimizeForBudget(ps, b) ==
  /\ pc = "idle"
  /\ products' = ps
  /\ budget' = b
  /\ IF AlreadyWithinBudget(SumPrices(ps), b)
     THEN /\ result' = NoOpResult(ps, SumPrices(ps))
          /\ ret' = "noop"
          /\ pc' = "returned"
     ELSE /\ pc' = "getAllProducts"
          /\ UNCHANGED <<result, ret>>
  /\ UNCHANGED <<sideVars, calls, query, genAI, catalog, seedPos, availableProducts, swaps, error,
                 allProducts, i, optimizedProducts, swapsMade>>

\* `await storage.getAllProducts()` in the try block resolves; the call enters
\* geminiService.optimizeOutfitForBudget and runs to its first await or throw.
GetAllProductsResolves ==
  /\ pc = "getAllProducts"
  /\ IF ~genAI
     THEN /\ error' = "noCredential"
          /\ pc' = CatchTarget("noCredential")
          /\ UNCHANGED <<availableProducts, result, ret>>
     ELSE IF SumPrices(products) <= budget
     THEN /\ result' = NoOpResult(products, SumPrices(products))
          /\ ret' = "oracle"
          /\ pc' = "returned"
          /\ UNCHANGED <<availableProducts, error>>
     ELSE /\ availableProducts' = catalog
          /\ pc' = "generateContent"
          /\ UNCHANGED <<error, result, ret>>
  /\ UNCHANGED <<sideVars, calls, query, genAI, catalog, seedPos, products, budget, swaps, allProducts,
                 i, optimizedProducts, swapsMade>>

\* `await storage.getAllProducts()` in the try block rejects.
GetAllProductsRejects ==
  /\ pc = "getAllProducts"
  /\ error' = "storage"
  /\ pc' = CatchTarget("storage")
  /\ UNCHANGED <<sideVars, calls, query, genAI, catalog, seedPos, products, budget, availableProducts,
                 swaps, allProducts, i, optimizedProducts, swapsMade, result, ret>>

\* The oracle request fails, or its reply cannot be parsed: the inner catch
\* rethrows, the optimizer's catch takes over.
GenerateContentFails(kind) ==
  /\ pc = "generateContent"
  /\ error' = kind
  /\ pc' = CatchTarget(kind)
  /\ availableProducts' = <<>>
  /\ UNCHANGED <<sideVars, calls, query, genAI, catalog, seedPos, products, budget, swaps, allProducts,
                 i, optimizedProducts, swapsMade, result, ret>>

\* The oracle replies with a parsable swap list; it is validated and applied.
GenerateContentReplies(batch) ==
  /\ pc = "generateContent"
  /\ swaps' = batch
  /\ result' = optimizeOutfitForBudget(products, batch, availableProducts)
  /\ products' = CallerListAfterOracleWrites(
                   products,
                   optimizeOutfitForBudget(products, batch, availableProducts).optimizedProducts)
  /\ ret' = "oracle"
  /\ pc' = AfterOracleReply(optimizeOutfitForBudget(products, batch, availableProducts))
  /\ UNCHANGED <<sideVars, calls, query, genAI, catalog, seedPos, budget, availableProducts,
                 error, allProducts, i, optimizedProducts, swapsMade>>

(* ---- BudgetOptimizer.optimizeForBudgetFallback ---- *)

FallbackGetAllProductsResolves ==
  /\ pc = "fallbackGetAllProducts"
  /\ allProducts' = catalog
  /\ swapsMade' = <<>>
  /\ optimizedProducts' = products
  /\ i' = 0
  /\ pc' = "loop"
  /\ UNCHANGED <<sideVars, calls, query, genAI, catalog, seedPos, products, budget, availableProducts,
                 swaps, error, result, ret>>

FallbackGetAllProductsRejects ==
  /\ pc = "fallbackGetAllProducts"
  /\ pc' = "rejected"
  /\ UNCHANGED <<sideVars, calls, query, genAI, catalog, seedPos, products, budget, availableProducts,
                 swaps, error, allProducts, i, optimizedProducts, swapsMade,
                 result, ret>>

\* One iteration of the for-loop.
FallbackIteration ==
  /\ pc = "loop"
  /\ i < Len(optimizedProducts)
  /\ LET after == FallbackBody(optimizedProducts, swapsMade, i, allProducts, budget)
     IN  /\ optimizedProducts' = after.optimizedProducts
         /\ swapsMade' = after.swapsMade
         /\ IF after.break
            THEN pc' = "final" /\ i' = i
            ELSE pc' = "loop" /\ i' = NextIndex(i)
         /\ products' = CallerListAfterFallbackWrite(products, after.optimizedProducts)
  /\ UNCHANGED <<sideVars, calls, query, genAI, catalog, seedPos, budget, availableProducts,
                 swaps, error, allProducts, result, ret>>

\* The loop is left (by break or by its condition); the result is computed.
FallbackReturns ==
  /\ \/ pc = "final"
     \/ pc = "loop" /\ i >= Len(optimizedProducts)
  /\ result' = FallbackResult(products, optimizedProducts, swapsMade)
  /\ ret' = "fallback"
  /\ pc' = "returned"
  /\ UNCHANGED <<sideVars, calls, query, genAI, catalog, seedPos, products, budget, availableProducts,
                 swaps, error, allProducts, i, optimizedProducts, swapsMade>>

\* The caller has taken the outcome; the next request may call again.
Respond ==
  /\ pc \in {"returned", "rejected"}
  /\ pc' = "idle"
  /\ products' = <<>>
  /\ budget' = 0
  /\ availableProducts' = <<>>
  /\ swaps' = <<>>
  /\ error' = "none"
  /\ allProducts' = <<>>
  /\ i' = 0
  /\ optimizedProducts' = <<>>
  /\ swapsMade' = <<>>
  /\ result' = NoResult
  /\ ret' = "none"
  /\ UNCHANGED <<sideVars, calls, query, genAI, catalog, seedPos>>

Next ==
  \/ \E k \in 1..Len(SeedProducts) : CreateProduct(k)
  \/ \E ps \in SeqsUpTo(Range(catalog), MaxProducts), b \in Budgets :
       OptimizeForBudget(ps, b)
  \/ GetAllProductsResolves
  \/ GetAllProductsRejects
  \/ \E kind \in {"request", "parse"} : GenerateContentFails(kind)
  \/ \E batch \in SeqsUpTo(ProposedSwaps(products, availableProducts), MaxSwaps) :
       GenerateContentReplies(batch)
  \/ FallbackGetAllProductsResolves
  \/ FallbackGetAllProductsRejects
  \/ FallbackIteration
  \/ FallbackReturns
  \/ Respond

Spec == Init /\ [][Next]_vars

(* ---- the queries, called on their own ---- *)

GetBudgetStatus(ps, b) ==
  /\ query' = [asked |-> TRUE, products |-> ps, budget |-> b,
               status |-> getBudgetStatus(ps, b)]
  /\ UNCHANGED <<sideVars, calls, genAI, catalog, seedPos, callVars>>

NextQuery ==
  \/ \E k \in 1..Len(SeedProducts) : CreateProduct(k)
  \/ \E ps \in SeqsUpTo(Range(catalog), MaxProducts), b \in Budgets :
       GetBudgetStatus(ps, b)

SpecQuery == Init /\ [][NextQuery]_vars

(* ---- the outfit generator ---- *)

\* The products the outfit generator may find in the catalog.
OutfitSeed ==
  << Product("D", "dress", 50), Product("T", "top", 10), Product("P", "bottom", 30),
     Product("S", "shoes", 40), Product("S2", "shoes", 25) >>

\* The elements of seq at the positions in S, in order.
Pick(seq, S) ==
  LET F[k \in 0..Len(seq)] ==
        IF k = 0 THEN <<>>
        ELSE IF k \in S THEN Append(F[k - 1], seq[k]) ELSE F[k - 1]
  IN  F[Len(seq)]

OutfitCatalogs == {Pick(OutfitSeed, S) : S \in SUBSET (1..Len(OutfitSeed))}

OutfitBudgets == {60, 80}

\* total_cost values a reply may state.
StatedCosts == {30, 90}

\* The outfits of a reply, each with the outcome of the optimisation call
\* that is made if it is over budget.
ReplyOutfits(all) ==
  [product_ids : SeqsUpTo(Ids(all) \cup {UnknownId}, MaxProducts),
   total_cost : StatedCosts]

Optimisations(ps, all) ==
  {[throws |-> TRUE, swaps |-> <<>>]}
    \cup {[throws |-> FALSE, swaps |-> batch] :
            batch \in SeqsUpTo(ProposedSwaps(ps, all), MaxConcSwaps)}

\* generateOutfits, the AI path: the catalog is read, the oracle replies with
\* outfits, each is converted (over budget: after an optimisation call).
GenerateOutfitsAI(b, all, reply_outfits, opts) ==
  /\ outfits.path = "none"
  /\ outfits' =
       [path |-> "ai", budget |-> b,
        list |-> [k \in 1..Len(reply_outfits) |->
                    OutfitFromRecommendation(AIRecommendation(reply_outfits[k], all),
                                             opts[k], b, all)]]
  /\ UNCHANGED <<route, reply, imageCache, tryOn, calls, query, genAI, catalog, seedPos, callVars>>

\* generateOutfits, the catch: the AI path threw (no key, request or parse
\* error, catalog read failed) and generateOutfitsFallback answers.
GenerateOutfitsRuleBased(b, ps) ==
  /\ outfits.path = "none"
  /\ outfits' = [path |-> "rule", budget |-> b, list |-> generateOutfitsFallback(ps, b)]
  /\ UNCHANGED <<route, reply, imageCache, tryOn, calls, query, genAI, catalog, seedPos, callVars>>

\* POST /api/generate-outfit answers with the outfits; the next request may come.
SendOutfits ==
  /\ outfits.path /= "none"
  /\ outfits' = NoOutfits
  /\ UNCHANGED <<route, reply, imageCache, tryOn, calls, query, genAI, catalog, seedPos, callVars>>

NextOutfit ==
  \/ /\ outfits.path = "none"
     /\ \E b \in OutfitBudgets, all \in OutfitCatalogs :
       \E reply_outfits \in SeqsUpTo(ReplyOutfits(all), MaxRecommendations) :
         \E opts \in [1..Len(reply_outfits) ->
                        UNION {Optimisations(ResolveIds(o.product_ids, all), all) :
                                 o \in Range(reply_outfits)}] :
           /\ \A k \in 1..Len(reply_outfits) :
                opts[k] \in Optimisations(ResolveIds(reply_outfits[k].product_ids, all), all)
           /\ GenerateOutfitsAI(b, all, reply_outfits, opts)
  \/ /\ outfits.path = "none"
     /\ \E b \in OutfitBudgets, ps \in OutfitCatalogs : GenerateOutfitsRuleBased(b, ps)
  \/ SendOutfits

SpecOutfit == Init /\ [][NextOutfit]_vars

(* ---- the try-on image generator ---- *)

\* The cache as earlier traffic left it: entries for n avatar ids that no
\* later request of the model uses.
EarlierEntries(n) ==
  [k \in 1..n |->
     LET params == TryOnGenerationParams(None, Avatar(100 + k),
                                         <<SeedProducts[1]>>, "workwear")
     IN  [key |-> getCacheKey(params),
          imageUrl |-> generateOutfitVisualizationWithBase(
                         BaseImage(params), params.products, params.occasion)]]

InitImage ==
  /\ genAI \in BOOLEAN
  /\ catalog = <<>>
  /\ seedPos = 0
  /\ pc = "idle"
  /\ products = <<>>
  /\ budget = 0
  /\ availableProducts = <<>>
  /\ swaps = <<>>
  /\ error = "none"
  /\ allProducts = <<>>
  /\ i = 0
  /\ optimizedProducts = <<>>
  /\ swapsMade = <<>>
  /\ result = NoResult
  /\ ret = "none"
  /\ query = NoQuery
  /\ calls = [c \in Calls |-> IdleFrame]
  /\ reply = NoReply
  /\ outfits = NoOutfits
  /\ imageCache \in {<<>>, EarlierEntries(maxCacheSize - 2)}
  /\ tryOn = [s \in TryOns |-> IdleTryOn]
  /\ route = NoRequest

\* The try-on requests of the model: one outfit for two user photos, and
\* for an avatar in two orders and for two occasions.
TryOnRequests ==
  LET ab == <<SeedProducts[1], SeedProducts[2]>>
      ba == <<SeedProducts[2], SeedProducts[1]>>
  IN  {TryOnGenerationParams(Photo(1), None, ab, "workwear"),
       TryOnGenerationParams(Photo(2), None, ab, "workwear"),
       TryOnGenerationParams(None, Avatar(1), ab, "workwear"),
       TryOnGenerationParams(None, Avatar(1), ba, "workwear"),
       TryOnGenerationParams(None, Avatar(1), ab, "date night")}

\* generateTryOnImage up to its first await: a cache hit returns at once.
GenerateTryOnImage(s, params) ==
  /\ tryOn[s].pc = "idle"
  /\ LET at == CacheIndex(imageCache, getCacheKey(params))
     IN  tryOn' = [tryOn EXCEPT ![s] =
           IF at /= 0
           THEN [pc |-> "done", params |-> params, fromCache |-> TRUE,
                 imageUrl |-> imageCache[at].imageUrl]
           ELSE [pc |-> "generating", params |-> params, fromCache |-> FALSE,
                 imageUrl |-> IdleTryOn.imageUrl]]
  /\ UNCHANGED <<route, imageCache, reply, outfits, calls, query, genAI, catalog, seedPos,
                 callVars>>

\* The base image and the visualisation have resolved; the result is cached
\* and returned.
VisualizationResolves(s) ==
  /\ tryOn[s].pc = "generating"
  /\ LET params == tryOn[s].params
         imageUrl == generateOutfitVisualizationWithBase(
                       BaseImage(params), params.products, params.occasion)
     IN  /\ imageCache' = cacheImage(imageCache, getCacheKey(params), imageUrl)
         /\ tryOn' = [tryOn EXCEPT ![s] = [@ EXCEPT !.pc = "done",
                                                    !.imageUrl = imageUrl]]
  /\ UNCHANGED <<route, reply, outfits, calls, query, genAI, catalog, seedPos, callVars>>

\* The route has put the image in its response.
TryOnSent(s) ==
  /\ tryOn[s].pc = "done"
  /\ tryOn' = [tryOn EXCEPT ![s] = IdleTryOn]
  /\ UNCHANGED <<route, imageCache, reply, outfits, calls, query, genAI, catalog, seedPos,
                 callVars>>

NextImage ==
  \/ \E s \in TryOns, params \in TryOnRequests : GenerateTryOnImage(s, params)
  \/ \E s \in TryOns : VisualizationResolves(s)
  \/ \E s \in TryOns : TryOnSent(s)

SpecImage == InitImage /\ [][NextImage]_vars

(* ---- the optimize route ---- *)

\* A request arrives: session user id (NoSession: none; 4: a user whose row
\* is gone) and outfit id (3: no such outfit).
ReceiveOptimize(userId, id) ==
  /\ route.pc = "none"
  /\ route' = [NoRequest EXCEPT !.pc = "attachUser", !.userId = userId, !.id = id]
  /\ UNCHANGED <<reply, outfits, imageCache, tryOn, calls, query, genAI, catalog,
                 seedPos, callVars>>

\* attachUser: the user row is looked up for a session with a user id; a
\* failed lookup is logged and req.user stays unset.
AttachUser(lookupFails) ==
  /\ route.pc = "attachUser"
  /\ route' = [route EXCEPT
                 !.pc = "requireAuth",
                 !.user = IF route.userId = NoSession \/ lookupFails THEN NoUser
                          ELSE getUserById(route.userId)]
  /\ UNCHANGED <<reply, outfits, imageCache, tryOn, calls, query, genAI, catalog,
                 seedPos, callVars>>

RequireAuth ==
  /\ route.pc = "requireAuth"
  /\ route' = IF Unauthenticated(route.userId)
              THEN [route EXCEPT !.pc = "responded", !.status = 401]
              ELSE [route EXCEPT !.pc = "requireOnboarding"]
  /\ UNCHANGED <<reply, outfits, imageCache, tryOn, calls, query, genAI, catalog,
                 seedPos, callVars>>

RequireOnboarding ==
  /\ route.pc = "requireOnboarding"
  /\ route' = IF NotOnboarded(route.user)
              THEN [route EXCEPT !.pc = "responded", !.status = 403]
              ELSE [route EXCEPT !.pc = "getOutfitById"]
  /\ UNCHANGED <<reply, outfits, imageCache, tryOn, calls, query, genAI, catalog,
                 seedPos, callVars>>

\* The handler up to the optimizer call: the outfit is read and checked, its
\* products are read; any read that throws ends in the catch with 500.
LoadOutfit(readFails) ==
  /\ route.pc = "getOutfitById"
  /\ route' =
       IF readFails = "outfit"
       THEN [route EXCEPT !.pc = "responded", !.status = 500]
       ELSE IF OutfitMissing(getOutfitById(route.id), route.userId)
       THEN [route EXCEPT !.pc = "responded", !.status = 404,
                          !.outfit = getOutfitById(route.id)]
       ELSE IF readFails = "product"
       THEN [route EXCEPT !.pc = "responded", !.status = 500,
                          !.outfit = getOutfitById(route.id)]
       ELSE [route EXCEPT !.pc = "optimizeForBudget", !.invoked = TRUE,
                          !.outfit = getOutfitById(route.id)]
  /\ UNCHANGED <<reply, outfits, imageCache, tryOn, calls, query, genAI, catalog,
                 seedPos, callVars>>

\* budgetOptimizer.optimizeForBudget resolves (200) or rejects (500).
OptimizerSettles(rejects) ==
  /\ route.pc = "optimizeForBudget"
  /\ route' = [route EXCEPT !.pc = "responded",
                            !.status = IF rejects THEN 500 ELSE 200]
  /\ UNCHANGED <<reply, outfits, imageCache, tryOn, calls, query, genAI, catalog,
                 seedPos, callVars>>

\* The response is out; the next request may come.
RequestDone ==
  /\ route.pc = "responded"
  /\ route' = NoRequest
  /\ UNCHANGED <<reply, outfits, imageCache, tryOn, calls, query, genAI, catalog,
                 seedPos, callVars>>

NextRoute ==
  \/ \E userId \in 0..4, id \in 1..3 : ReceiveOptimize(userId, id)
  \/ \E lookupFails \in BOOLEAN : AttachUser(lookupFails)
  \/ RequireAuth
  \/ RequireOnboarding
  \/ \E readFails \in {"none", "outfit", "product"} : LoadOutfit(readFails)
  \/ \E rejects \in BOOLEAN : OptimizerSettles(rejects)
  \/ RequestDone

SpecRoute == Init /\ [][NextRoute]_vars

(* ---- the oracle's reply text, parsed ---- *)

\* The swap objects a reply text lists.
ReplySwaps == {Swap("A", "A1"), Swap("B", "B2")}

\* JSON bodies: a well-formed {"swaps": [...]} object, the same cut short, a
\* bare array, or none.
ObjectText(items) ==
  <<Tok("{"), Tok("swaps:"), Tok("[")>> \o [k \in 1..Len(items) |-> SwapTok(items[k])]
    \o <<Tok("]"), Tok("}")>>

ReplyBodies ==
  UNION {{ObjectText(items),
          SubSeq(ObjectText(items), 1, Len(ObjectText(items)) - 1),
          SubSeq(ObjectText(items), 3, Len(ObjectText(items)) - 1)} :
            items \in SeqsUpTo(ReplySwaps, MaxSwaps)} \cup {<<>>}

Prose == {<<>>, <<Tok("prose")>>}

Fenced(body) ==
  {body, <<Tok("fence")>> \o body \o <<Tok("fence")>>,
         <<Tok("fence json")>> \o body \o <<Tok("fence")>>}

ReplyTexts ==
  {pre \o mid \o post :
     pre \in Prose, post \in Prose, mid \in UNION {Fenced(body) : body \in ReplyBodies}}

\* optimizeOutfitForBudget: response.text() is parsed and the swap list taken.
ParseReply(text) ==
  /\ reply' = [given |-> TRUE, text |-> text,
               value |-> parseJsonFromResponse(text),
               swaps |-> SwapsOfReply(parseJsonFromResponse(text))]
  /\ UNCHANGED <<route, outfits, imageCache, tryOn, calls, query, genAI, catalog, seedPos, callVars>>

NextParse == \E text \in ReplyTexts : ParseReply(text)

SpecParse == Init /\ [][NextParse]_vars

(* ---- optimizeForBudget, several invocations in flight ---- *)

\* The database was seeded by an earlier start of the server.
InitConc ==
  /\ genAI \in BOOLEAN
  /\ catalog = SubSeq(SeedProducts, 1, MaxCatalog - 1)
  /\ seedPos = MaxCatalog - 1
  /\ pc = "idle"
  /\ products = <<>>
  /\ budget = 0
  /\ availableProducts = <<>>
  /\ swaps = <<>>
  /\ error = "none"
  /\ allProducts = <<>>
  /\ i = 0
  /\ optimizedProducts = <<>>
  /\ swapsMade = <<>>
  /\ result = NoResult
  /\ ret = "none"
  /\ query = NoQuery
  /\ calls = [c \in Calls |-> IdleFrame]
  /\ reply = NoReply
  /\ outfits = NoOutfits
  /\ imageCache = <<>>
  /\ tryOn = [s \in TryOns |-> IdleTryOn]
  /\ route = NoRequest

CallOptimizeForBudget(c, ps, b) ==
  /\ calls[c].pc = "idle"
  /\ calls' = StoreLocals(calls, c,
       IF AlreadyWithinBudget(SumPrices(ps), b)
       THEN [calls[c] EXCEPT !.products = ps, !.budget = b,
                             !.result = NoOpResult(ps, SumPrices(ps)),
                             !.ret = "noop", !.pc = "returned"]
       ELSE [calls[c] EXCEPT !.products = ps, !.budget = b,
                             !.pc = "getAllProducts"])
  /\ UNCHANGED <<sideVars, query, genAI, catalog, seedPos, callVars>>

CallGetAllProductsResolves(c) ==
  /\ calls[c].pc = "getAllProducts"
  /\ calls' = StoreLocals(calls, c,
       IF ~genAI
       THEN [calls[c] EXCEPT !.error = "noCredential",
                             !.pc = CatchTarget("noCredential")]
       ELSE IF SumPrices(calls[c].products) <= calls[c].budget
       THEN [calls[c] EXCEPT
               !.result = NoOpResult(calls[c].products, SumPrices(calls[c].products)),
               !.ret = "oracle", !.pc = "returned"]
       ELSE [calls[c] EXCEPT !.availableProducts = catalog,
                             !.pc = "generateContent"])
  /\ UNCHANGED <<sideVars, query, genAI, catalog, seedPos, callVars>>

CallGetAllProductsRejects(c) ==
  /\ calls[c].pc = "getAllProducts"
  /\ calls' = StoreLocals(calls, c,
       [calls[c] EXCEPT !.error = "storage", !.pc = CatchTarget("storage")])
  /\ UNCHANGED <<sideVars, query, genAI, catalog, seedPos, callVars>>

CallGenerateContentFails(c, kind) ==
  /\ calls[c].pc = "generateContent"
  /\ calls' = StoreLocals(calls, c,
       [calls[c] EXCEPT !.error = kind, !.pc = CatchTarget(kind),
                        !.availableProducts = <<>>])
  /\ UNCHANGED <<sideVars, query, genAI, catalog, seedPos, callVars>>

CallGenerateContentReplies(c, batch) ==
  /\ calls[c].pc = "generateContent"
  /\ LET res == optimizeOutfitForBudget(calls[c].products, batch,
                                        calls[c].availableProducts)
     IN  calls' = StoreLocals(calls, c,
           [calls[c] EXCEPT
              !.swaps = batch,
              !.result = res,
              !.products = CallerListAfterOracleWrites(calls[c].products,
                                                       res.optimizedProducts),
              !.ret = "oracle",
              !.pc = AfterOracleReply(res)])
  /\ UNCHANGED <<sideVars, query, genAI, catalog, seedPos, callVars>>

CallFallbackGetAllProductsResolves(c) ==
  /\ calls[c].pc = "fallbackGetAllProducts"
  /\ calls' = StoreLocals(calls, c,
       [calls[c] EXCEPT !.allProducts = catalog, !.swapsMade = <<>>,
                        !.optimizedProducts = calls[c].products,
                        !.i = 0, !.pc = "loop"])
  /\ UNCHANGED <<sideVars, query, genAI, catalog, seedPos, callVars>>

CallFallbackGetAllProductsRejects(c) ==
  /\ calls[c].pc = "fallbackGetAllProducts"
  /\ calls' = StoreLocals(calls, c, [calls[c] EXCEPT !.pc = "rejected"])
  /\ UNCHANGED <<sideVars, query, genAI, catalog, seedPos, callVars>>

CallFallbackIteration(c) ==
  /\ calls[c].pc = "loop"
  /\ calls[c].i < Len(calls[c].optimizedProducts)
  /\ LET after == FallbackBody(calls[c].optimizedProducts, calls[c].swapsMade,
                               calls[c].i, calls[c].allProducts, calls[c].budget)
     IN  calls' = StoreLocals(calls, c,
           [calls[c] EXCEPT
              !.optimizedProducts = after.optimizedProducts,
              !.swapsMade = after.swapsMade,
              !.pc = IF after.break THEN "final" ELSE "loop",
              !.i = IF after.break THEN calls[c].i ELSE NextIndex(calls[c].i),
              !.products = CallerListAfterFallbackWrite(calls[c].products,
                                                        after.optimizedProducts)])
  /\ UNCHANGED <<sideVars, query, genAI, catalog, seedPos, callVars>>

CallFallbackReturns(c) ==
  /\ \/ calls[c].pc = "final"
     \/ calls[c].pc = "loop" /\ calls[c].i >= Len(calls[c].optimizedProducts)
  /\ calls' = StoreLocals(calls, c,
       [calls[c] EXCEPT
          !.result = FallbackResult(calls[c].products, calls[c].optimizedProducts,
                                    calls[c].swapsMade),
          !.ret = "fallback", !.pc = "returned"])
  /\ UNCHANGED <<sideVars, query, genAI, catalog, seedPos, callVars>>

\* The caller has taken the outcome; the frame is gone.
CallRespond(c) ==
  /\ calls[c].pc \in {"returned", "rejected"}
  /\ calls' = [calls EXCEPT ![c] = IdleFrame]
  /\ UNCHANGED <<sideVars, query, genAI, catalog, seedPos, callVars>>

\* The requests that arrive side by side: lists without repetition, in
\* catalog order, all with one budget.
ConcBudgets == {50}

ConcLists(cat) ==
  {ps \in SeqsUpTo(Range(cat), MaxProducts) :
     \A m \in 1..Len(ps), n \in 1..Len(ps) :
       m < n => FindIndex(cat, ps[m].id) < FindIndex(cat, ps[n].id)}

NextConc ==
  \/ \E k \in 1..Len(SeedProducts) : CreateProduct(k)
  \/ \E c \in Calls, ps \in ConcLists(catalog), b \in ConcBudgets :
       CallOptimizeForBudget(c, ps, b)
  \/ \E c \in Calls : CallGetAllProductsResolves(c)
  \/ \E c \in Calls : CallGetAllProductsRejects(c)
  \/ \E c \in Calls, kind \in {"request", "parse"} : CallGenerateContentFails(c, kind)
  \/ \E c \in Calls :
       \E batch \in SeqsUpTo(ProposedSwaps(calls[c].products,
                                           calls[c].availableProducts),
                             MaxConcSwaps) :
         CallGenerateContentReplies(c, batch)
  \/ \E c \in Calls : CallFallbackGetAllProductsResolves(c)
  \/ \E c \in Calls : CallFallbackGetAllProductsRejects(c)
  \/ \E c \in Calls : CallFallbackIteration(c)
  \/ \E c \in Calls : CallFallbackReturns(c)
  \/ \E c \in Calls : CallRespond(c)

SpecConc == InitConc /\ [][NextConc]_vars

\* The fallback's loop has no suspension other than awaits on promises that
\* are already settled, so the event loop always resumes it.
SpecFair ==
  Spec /\ WF_vars(FallbackIteration) /\ WF_vars(FallbackReturns)

(* ======================================================================= *)
(* Properties                                                              *)
(* ======================================================================= *)

Returned == pc = "returned"

\* C1: no-op path.  A call on a list whose price sum is <= budget returns the
\* input list itself (same items, same order), totalCost equal to that sum,
\* savings 0 and no swaps.
C1_NoOpPath ==
  (Returned /\ SumPrices(products) <= budget) =>
    /\ result.optimizedProducts = products
    /\ result.totalCost = SumPrices(products)
    /\ result.savings = 0
    /\ result.swapsMade = <<>>

C1_Witness ==
  /\ Returned
  /\ ret = "noop"
  /\ Len(products) = 2
  /\ SumPrices(products) = budget

\* C2: an oracle failure (no credential, request error, unparsable reply) is
\* caught: control goes to the fallback, and what the call returns is the
\* fallback's result on the original input list.
C2_OracleFailureFallsBack ==
  /\ [][(error = "none" /\ error' \in OracleErrors)
          => pc' = "fallbackGetAllProducts"]_vars
  /\ []((Returned /\ error \in OracleErrors) =>
          /\ ret = "fallback"
          /\ result = optimizeForBudgetFallback(products, budget, allProducts))

C2_Witness ==
  /\ Returned
  /\ error = "parse"
  /\ ret = "fallback"
  /\ Len(result.swapsMade) = 2

\* C3 (as claimed): whenever a catalog fetch fails during a call on an
\* over-budget list, the call rejects and returns no result.
C3_CatalogFailureRejects ==
  error = "storage" => ~Returned

\* C4 (as claimed): every swap returned has a replacement of the original's
\* category, on the oracle path as on the fallback path.
C4_CategoryPreserved ==
  Returned =>
    \A k \in 1..Len(result.swapsMade) :
      result.swapsMade[k].replacement.category = result.swapsMade[k].original.category

\* C5 (as claimed): no swap returned replaces a product by a product of the
\* same id, on either path.
C5_NoSelfSwap ==
  Returned =>
    \A k \in 1..Len(result.swapsMade) :
      result.swapsMade[k].replacement.id /= result.swapsMade[k].original.id

\* C6: cost accounting.  On every path the returned totalCost is the sum of
\* the prices of the returned optimizedProducts.
C6_CostAccounting ==
  Returned => result.totalCost = SumPrices(result.optimizedProducts)

C6_Witness ==
  /\ Returned
  /\ ret = "oracle"
  /\ Len(result.swapsMade) = 2
  /\ result.totalCost /= SumPrices(products)

\* C7: savings accounting.  On every path the returned savings is the initial
\* cost of the input list minus the returned totalCost, also when the oracle's
\* batch chains swaps or repeats an original.
C7_SavingsAccounting ==
  Returned => result.savings = SumPrices(products) - result.totalCost

\* A chained batch was applied: the second swap's original has the id the
\* first swap's replacement has.
C7_Witness ==
  /\ Returned
  /\ ret = "oracle"
  /\ Len(result.swapsMade) = 2
  /\ result.swapsMade[1].replacement.id = result.swapsMade[2].original.id
  /\ result.swapsMade[1].original.id /= result.swapsMade[2].original.id

IsResolvable(swap, ps, available) ==
  /\ swap.original_product_id \in Ids(ps)
  /\ swap.replacement_product_id \in Ids(available)

\* C8: oracle validation.  A proposed swap whose original id is not in the
\* input list or whose replacement id is not in the catalog is dropped, and
\* the result is the one the batch without those swaps gives.
C8_InvalidSwapsDiscarded ==
  (Returned /\ ret = "oracle") =>
    result = optimizeOutfitForBudget(
               products,
               SelectSeq(swaps, LAMBDA sw : IsResolvable(sw, products, availableProducts)),
               availableProducts)

C8_Witness ==
  /\ Returned
  /\ ret = "oracle"
  /\ Len(swaps) = 2
  /\ ~IsResolvable(swaps[1], products, availableProducts)
  /\ IsResolvable(swaps[2], products, availableProducts)
  /\ Len(result.swapsMade) = 1

SuffixUntouched(from) ==
  \A k \in from..Len(products) : optimizedProducts[k] = products[k]

\* C9: fallback early exit.  The loop goes on only while the running total is
\* > budget, leaves by break exactly at the first swap that brings the total
\* to <= budget, leaves the items after that position as they were, and
\* returns over budget only after visiting every item.  On [A 40, B 60] with
\* alternatives A2 15 and B2 30 and budget 70 or 50 it swaps both: totalCost
\* 45, savings 55, two swaps.
C9_FallbackEarlyExit ==
  /\ pc = "loop" =>
       /\ SumPrices(optimizedProducts) > budget
       /\ SuffixUntouched(i + 1)
  /\ pc = "final" =>
       /\ SumPrices(optimizedProducts) <= budget
       /\ swapsMade /= <<>>
       /\ swapsMade[Len(swapsMade)].original = products[i + 1]
       /\ SumPrices([optimizedProducts EXCEPT ![i + 1] = products[i + 1]]) > budget
       /\ SuffixUntouched(i + 2)
  /\ (Returned /\ ret = "fallback") =>
       /\ result.totalCost > budget => i = Len(products)
       /\ i < Len(products) =>
            /\ result.totalCost <= budget
            /\ \A k \in (i + 2)..Len(products) :
                 result.optimizedProducts[k] = products[k]
       /\ ( /\ products = <<SeedProducts[1], SeedProducts[2]>>
            /\ {"A2", "B2"} \subseteq Ids(allProducts)
            /\ budget \in {50, 70} )
          => /\ result.totalCost = 45
             /\ result.savings = 55
             /\ Len(result.swapsMade) = 2

C9_Witness ==
  /\ Returned
  /\ ret = "fallback"
  /\ products = <<SeedProducts[1], SeedProducts[2]>>
  /\ budget = 70
  /\ result.totalCost = 45
  /\ result.savings = 55
  /\ Len(result.swapsMade) = 2

\* C10: fallback selection.  Every swap the fallback makes takes a catalog
\* product of the original's category, of another id and strictly cheaper,
\* of the least price among all such products, and the first of them in
\* catalog order when several have that price.
C10_FallbackSelection ==
  (pc \in {"loop", "final"} \/ (Returned /\ ret = "fallback")) =>
    \A k \in 1..Len(swapsMade) :
      LET o == swapsMade[k].original
          r == swapsMade[k].replacement
          Candidate(c) == c.category = o.category /\ c.id /= o.id /\ c.price < o.price
          at == FindIndex(allProducts, r.id)
      IN  /\ at /= 0
          /\ allProducts[at] = r
          /\ Candidate(r)
          /\ \A n \in 1..Len(allProducts) :
               Candidate(allProducts[n]) =>
                 /\ r.price <= allProducts[n].price
                 /\ (allProducts[n].price = r.price => at <= n)
          /\ (Returned => result.swapsMade = swapsMade)

\* Two candidates tie at the least price and the first was taken.
C10_Witness ==
  /\ pc \in {"loop", "final"}
  /\ \E k \in 1..Len(swapsMade) :
       /\ swapsMade[k].original.id = "B"
       /\ swapsMade[k].replacement.id = "B2"
  /\ "B3" \in Ids(allProducts)

\* C11: non-mutation.  From the start of a call to its outcome the caller's
\* product list holds the same products in the same order, on every path; the
\* swaps go to a working copy.
C11_InputNotMutated ==
  [][(pc /= "idle" /\ pc' /= "idle") => products' = products]_vars

C11_Witness ==
  /\ Returned
  /\ ret = "fallback"
  /\ error = "noCredential"
  /\ Len(products) = 2
  /\ \A k \in 1..2 : result.optimizedProducts[k] /= products[k]

NoApplicableSwap ==
  \A k \in 1..Len(swaps) : ~IsResolvable(swaps[k], products, availableProducts)

\* C12: an oracle call that succeeds without any applicable swap (empty list,
\* or only unresolvable swaps) ends the call: the input is returned unchanged
\* with no swaps, savings 0 and the initial cost, still over budget, and the
\* fallback is not run.
C12_EmptyOracleReplyIsFinal ==
  (ret = "oracle" /\ NoApplicableSwap) =>
    /\ Returned
    /\ error = "none"
    /\ allProducts = <<>>
    /\ result = [optimizedProducts |-> products,
                 totalCost |-> SumPrices(products),
                 savings |-> 0,
                 swapsMade |-> <<>>]
    /\ result.totalCost > budget

C12_Witness ==
  /\ Returned
  /\ ret = "oracle"
  /\ Len(swaps) = 2
  /\ NoApplicableSwap
  /\ Len(products) = 2
  /\ Len(catalog) > Len(products)

InFallback == pc \in {"loop", "final"} \/ (Returned /\ ret = "fallback")

HasCandidate(p, all) ==
  \E n \in 1..Len(all) :
    /\ all[n].category = p.category
    /\ all[n].price < p.price
    /\ all[n].id /= p.id

\* C13: no-candidate case.  In the fallback an item for which the catalog
\* snapshot has no same-category, strictly cheaper product of another id keeps
\* its position and is the original of no swap; with an empty snapshot the loop
\* body leaves any item alone.
C13_NoCandidateUnchanged ==
  /\ InFallback =>
       \A k \in 1..Len(products) :
         ~HasCandidate(products[k], allProducts) =>
           /\ optimizedProducts[k] = products[k]
           /\ \A n \in 1..Len(swapsMade) : swapsMade[n].original /= products[k]
           /\ Returned =>
                /\ result.optimizedProducts[k] = products[k]
                /\ result.swapsMade = swapsMade
  /\ \A p \in Range(catalog) :
       FallbackBody(<<p>>, <<>>, 0, <<>>, budget) =
         [optimizedProducts |-> <<p>>, swapsMade |-> <<>>, break |-> FALSE]

\* The second item has no candidate although cheaper products of the other
\* category are in the snapshot; the first was swapped and the loop went on.
C13_Witness ==
  /\ Returned
  /\ ret = "fallback"
  /\ Len(products) = 2
  /\ ~HasCandidate(products[2], allProducts)
  /\ \E n \in 1..Len(allProducts) : allProducts[n].price < products[2].price
  /\ Len(result.swapsMade) = 1
  /\ result.totalCost > budget

NoDuplicate(ps) ==
  \A a, b \in 1..Len(ps) : a /= b => ps[a].id /= ps[b].id

\* C14 (as claimed): when no product occurs twice in the input list, none
\* occurs twice in the returned optimizedProducts.
C14_NoDuplicates ==
  (Returned /\ NoDuplicate(products)) => NoDuplicate(result.optimizedProducts)

\* C15: length preservation.  The working copy and the returned list have the
\* length of the input list; swaps replace in place, so at most one position
\* changes per swap.
C15_LengthPreserved ==
  /\ pc \in {"loop", "final"} => Len(optimizedProducts) = Len(products)
  /\ Returned =>
       /\ Len(result.optimizedProducts) = Len(products)
       /\ Cardinality({k \in 1..Len(products) :
                         result.optimizedProducts[k] /= products[k]})
            <= Len(result.swapsMade)

C15_Witness ==
  /\ Returned
  /\ ret = "oracle"
  /\ Len(products) = 2
  /\ Len(result.swapsMade) = 2
  /\ Len(result.optimizedProducts) = 2
  /\ \A k \in 1..2 : result.optimizedProducts[k].id /= products[k].id

\* C16: fast path.  A call on a list within budget returns at once with the
\* no-op result: it is never at a catalog read, at the oracle or in the
\* fallback, and has read no catalog snapshot and no oracle reply.
C16_FastPath ==
  (pc /= "idle" /\ SumPrices(products) <= budget) =>
    /\ Returned
    /\ ret = "noop"
    /\ error = "none"
    /\ availableProducts = <<>>
    /\ allProducts = <<>>
    /\ swaps = <<>>

C16_Witness ==
  /\ Returned
  /\ ret = "noop"
  /\ Len(catalog) = 4
  /\ Len(products) = 2
  /\ SumPrices(products) < budget
  /\ availableProducts = <<>>
  /\ allProducts = <<>>

\* C18: best effort and termination.  Once the fallback has its catalog
\* snapshot it visits each item at most once, makes at most one swap per item
\* visited, and always comes to return a result, over budget or not.
C18_FallbackTerminates ==
  /\ [](pc \in {"loop", "final"} =>
          /\ i <= Len(products)
          /\ Len(swapsMade) <= (IF pc = "final" THEN i + 1 ELSE i)
          /\ Len(swapsMade) <= Len(products))
  /\ [][(pc = "loop" /\ pc' = "loop" /\ catalog' = catalog) => i' = i + 1]_vars
  /\ [][(pc = "loop" /\ pc' /= "loop") =>
          (pc' = "final" \/ (pc' = "returned" /\ ret' = "fallback"))]_vars
  /\ (pc = "loop") ~> (Returned /\ ret = "fallback")

\* A negative budget: every item was visited and swapped, and the result is
\* returned although it is over budget.
C18_Witness ==
  /\ Returned
  /\ ret = "fallback"
  /\ budget < 0
  /\ Len(products) = 2
  /\ i = 2
  /\ Len(result.swapsMade) = 2
  /\ result.totalCost > budget

\* C19: getBudgetStatus returns the price sum as totalCost, budget minus that
\* sum as remaining (negative when over budget) and isWithinBudget = (sum <=
\* budget); so isWithinBudget holds exactly when remaining >= 0, and exactly
\* when optimizeForBudget on the same arguments returns by its no-op path.
C19_BudgetStatus ==
  query.asked =>
    LET sum == SumPrices(query.products)
        st == query.status
    IN  /\ st.totalCost = sum
        /\ st.remaining = query.budget - sum
        /\ st.isWithinBudget <=> (sum <= query.budget)
        /\ st.isWithinBudget <=> (st.remaining >= 0)
        /\ st.isWithinBudget <=>
             ENABLED (OptimizeForBudget(query.products, query.budget) /\ ret' = "noop")
        /\ ~st.isWithinBudget <=>
             ENABLED (OptimizeForBudget(query.products, query.budget)
                        /\ pc' = "getAllProducts")

\* The boundary: the sum equals the budget.
C19_Witness ==
  /\ query.asked
  /\ Len(query.products) = 2
  /\ query.status.remaining = 0
  /\ query.status.isWithinBudget

\* C20: utilization clamp.  For a positive budget calculateBudgetUtilization
\* is min(100, 100 * sum / budget): between 0 and 100, never above 100, and
\* 100 whenever the list is over budget.
C20_UtilizationClamp ==
  (query.asked /\ query.budget > 0) =>
    LET sum == SumPrices(query.products)
        u == query.status.utilizationPercent
    IN  /\ ~u.nan
        /\ u.den > 0
        /\ 0 <= u.num
        /\ u.num <= 100 * u.den
        /\ sum > query.budget => u.num = 100 * u.den
        /\ sum <= query.budget => u.num * query.budget = 100 * sum * u.den
        /\ u = calculateBudgetUtilization(query.products, query.budget)

\* The cost is more than twice the budget.
C20_Witness ==
  /\ query.asked
  /\ query.budget > 0
  /\ SumPrices(query.products) > 2 * query.budget
  /\ query.status.utilizationPercent = Hundred

\* What invocation frame f returns when it runs alone on its own arguments,
\* its own catalog reads and its own oracle reply.
AloneResult(f) ==
  CASE f.ret = "noop" -> NoOpResult(f.products, SumPrices(f.products))
    [] f.ret = "oracle" ->
         optimizeOutfitForBudget(f.products, f.swaps, f.availableProducts)
    [] f.ret = "fallback" ->
         optimizeForBudgetFallback(f.products, f.budget, f.allProducts)

\* C17: invocations in flight together do not interfere.  A step of one
\* leaves the frame of every other as it was; an invocation in its fallback
\* loop is still on the way to the result of running alone; and each returns
\* what it returns alone on the same arguments, catalog reads and oracle reply.
C17_NoInterference ==
  /\ [][\A c \in Calls, d \in Calls :
          (c /= d /\ calls'[c] /= calls[c]) => calls'[d] = calls[d]]_vars
  /\ [](\A c \in Calls :
          calls[c].pc = "loop" =>
            FallbackLoop(calls[c].products, calls[c].optimizedProducts,
                         calls[c].swapsMade, calls[c].i, calls[c].allProducts,
                         calls[c].budget)
              = optimizeForBudgetFallback(calls[c].products, calls[c].budget,
                                          calls[c].allProducts))
  /\ [](\A c \in Calls :
          calls[c].pc = "returned" => calls[c].result = AloneResult(calls[c]))

\* Two invocations overlapped: the first read the catalog before a product
\* was added and is still in its loop, the second read it afterwards and has
\* already returned with a swap.
C17_Witness ==
  /\ calls[1].pc = "loop"
  /\ calls[1].i >= 1
  /\ calls[1].swapsMade /= <<>>
  /\ calls[2].pc = "returned"
  /\ calls[2].ret = "fallback"
  /\ calls[2].result.swapsMade /= <<>>
  /\ Len(calls[1].allProducts) < Len(calls[2].allProducts)

\* The product the fallback's loop is about to look at.
CurrentProduct == optimizedProducts[i + 1]

AtLoopItem == pc = "loop" /\ i < Len(optimizedProducts)

\* C21: findBudgetAlternatives(product, catalog) is exactly the catalog
\* products of the same category, strictly lower price and different id, each
\* once and in catalog order; never the product itself, never one of equal or
\* higher price; and a replacement the fallback records is one of them.
C21_AlternativesExact ==
  /\ [](AtLoopItem =>
          LET alts == findBudgetAlternatives(CurrentProduct, allProducts)
          IN  /\ Range(alts) =
                   {a \in Range(allProducts) :
                      /\ a.category = CurrentProduct.category
                      /\ a.price < CurrentProduct.price
                      /\ a.id /= CurrentProduct.id}
              /\ Len(alts) = Cardinality(Range(alts))
              /\ \A m \in 1..Len(alts), n \in 1..Len(alts) :
                   m < n => FindIndex(allProducts, alts[m].id)
                              < FindIndex(allProducts, alts[n].id)
              /\ CurrentProduct \notin Range(alts)
              /\ \A a \in Range(alts) : a.price < CurrentProduct.price)
  /\ [][(AtLoopItem /\ swapsMade' /= swapsMade) =>
          /\ Len(swapsMade') = Len(swapsMade) + 1
          /\ swapsMade'[Len(swapsMade')].replacement
               \in Range(findBudgetAlternatives(CurrentProduct, allProducts))
          /\ swapsMade'[Len(swapsMade')].original = CurrentProduct]_vars

\* The loop looks at a product that has an alternative and also another
\* same-category catalog product that is not cheaper, hence not among them.
C21_Witness ==
  /\ AtLoopItem
  /\ findBudgetAlternatives(CurrentProduct, allProducts) /= <<>>
  /\ \E a \in Range(allProducts) :
       /\ a.category = CurrentProduct.category
       /\ a.id /= CurrentProduct.id
       /\ a.price >= CurrentProduct.price

\* A reply text that is a well-formed {"swaps": [...]} object, bare or in a
\* code fence, with prose before or after it.
IsWrappedObject(text, items) ==
  \E pre \in Prose, post \in Prose, mid \in Fenced(ObjectText(items)) :
    text = pre \o mid \o post

\* C22: a well-formed {"swaps": [...]} object wrapped in a code fence or
\* surrounded by prose is parsed to that object, so the swaps it lists are
\* the ones taken for validation; the parse error is thrown only when every
\* attempt fails.
C22_WrappedObjectParsed ==
  reply.given =>
    /\ \A items \in SeqsUpTo(ReplySwaps, MaxSwaps) :
         IsWrappedObject(reply.text, items) =>
           /\ reply.value = ObjectValue(items)
           /\ reply.swaps = items
    /\ ~reply.value.ok <=>
         /\ ~JSONParse(reply.text).ok
         /\ ~JSONParse(FencedBlock(reply.text)).ok
         /\ ~JSONParse(ArrayPattern(reply.text)).ok
         /\ ~JSONParse(ObjectPattern(reply.text)).ok

\* The fenced case alone: a fenced well-formed object, with or without prose
\* around the fence, is parsed to that object.
FencedObjectParsed ==
  reply.given =>
    \A items \in SeqsUpTo(ReplySwaps, MaxSwaps) :
      (IsWrappedObject(reply.text, items) /\ \E k \in 1..Len(reply.text) : IsFence(reply.text[k]))
        => (reply.value = ObjectValue(items) /\ reply.swaps = items)

\* The lowest price the item can be brought to by a same-category
\* substitution from the catalog snapshot all.
RECURSIVE MinOver(_, _)
MinOver(all, p) ==
  IF all = <<>> THEN p.price
  ELSE LET rest == MinOver(Tail(all), p)
       IN  IF all[1].category = p.category /\ all[1].price < rest
           THEN all[1].price ELSE rest

RECURSIVE AchievableCost(_, _)
AchievableCost(ps, all) ==
  IF ps = <<>> THEN 0
  ELSE MinOver(all, ps[1]) + AchievableCost(Tail(ps), all)

\* C23: fallback completeness.  The fallback returns totalCost <= budget
\* whenever the sum of min(item price, lowest same-category catalog price) is
\* <= budget; and when it returns totalCost > budget, no item of
\* optimizedProducts has a strictly cheaper same-category alternative.
C23_FallbackComplete ==
  (Returned /\ ret = "fallback") =>
    /\ AchievableCost(products, allProducts) <= budget
         => result.totalCost <= budget
    /\ result.totalCost > budget =>
         /\ \A k \in 1..Len(result.optimizedProducts) :
              ~HasCandidate(result.optimizedProducts[k], allProducts)
         /\ result.totalCost = AchievableCost(products, allProducts)

\* The budget is reached only by swapping both items, the second one to the
\* cheapest of several.
C23_Witness ==
  /\ Returned /\ ret = "fallback"
  /\ Len(result.swapsMade) = 2
  /\ result.totalCost <= budget
  /\ result.totalCost = AchievableCost(products, allProducts)
  /\ SumPrices(products) - result.swapsMade[1].savings > budget

RECURSIVE SumSavings(_)
SumSavings(made) ==
  IF made = <<>> THEN 0 ELSE made[1].savings + SumSavings(Tail(made))

\* The positions at which the working copy differs from the caller's list,
\* in increasing order.
RECURSIVE ChangedFrom(_, _, _)
ChangedFrom(ps, optimized, k) ==
  IF k > Len(ps) THEN <<>>
  ELSE IF optimized[k] /= ps[k] THEN <<k>> \o ChangedFrom(ps, optimized, k + 1)
  ELSE ChangedFrom(ps, optimized, k + 1)

\* C24: in the fallback every recorded swap has strictly positive savings;
\* each position is swapped at most once (the swaps are, in order, exactly the
\* positions that changed, from the caller's product to the returned one);
\* the returned savings is the sum of the swaps' savings; so the total cost
\* never rises and savings >= 0.
C24_FallbackSavings ==
  /\ [](InFallback =>
          LET changed == ChangedFrom(products, optimizedProducts, 1)
          IN  /\ \A k \in 1..Len(swapsMade) :
                   /\ swapsMade[k].savings > 0
                   /\ swapsMade[k].savings =
                        swapsMade[k].original.price - swapsMade[k].replacement.price
              /\ Len(changed) = Len(swapsMade)
              /\ \A k \in 1..Len(swapsMade) :
                   /\ swapsMade[k].original = products[changed[k]]
                   /\ swapsMade[k].replacement = optimizedProducts[changed[k]]
              /\ SumPrices(optimizedProducts) <= SumPrices(products))
  /\ []((Returned /\ ret = "fallback") =>
          /\ result.swapsMade = swapsMade
          /\ result.savings = SumSavings(result.swapsMade)
          /\ result.savings >= 0
          /\ result.totalCost <= SumPrices(products)
          /\ result.totalCost = SumPrices(products) - result.savings)
  /\ [][(pc = "loop" /\ optimizedProducts' /= optimizedProducts) =>
          /\ \A k \in 1..Len(optimizedProducts) :
               optimizedProducts'[k] /= optimizedProducts[k] => k = i + 1
          /\ swapsMade' = Append(swapsMade, swapsMade'[Len(swapsMade')])
          /\ (pc' = "loop" => i' > i)]_vars

\* Both positions were swapped, with different savings.
C24_Witness ==
  /\ Returned /\ ret = "fallback"
  /\ Len(result.swapsMade) = 2
  /\ result.swapsMade[1].savings /= result.swapsMade[2].savings
  /\ result.savings = result.swapsMade[1].savings + result.swapsMade[2].savings

\* optimizeForBudget with the oracle unavailable and the catalog read being
\* all: the no-op return, or the fallback's.
WithoutOracle(ps, b, all) ==
  IF AlreadyWithinBudget(SumPrices(ps), b)
  THEN NoOpResult(ps, SumPrices(ps))
  ELSE optimizeForBudgetFallback(ps, b, all)

\* C25: idempotence of the fallback.  With the oracle unavailable and the
\* catalog and budget unchanged, optimizeForBudget on the optimizedProducts of
\* a first call returns that list unchanged, with no swap and savings 0.
C25_FallbackIdempotent ==
  (Returned /\ ret = "fallback" /\ catalog = allProducts) =>
    /\ result = optimizeForBudgetFallback(products, budget, allProducts)
    /\ LET again == WithoutOracle(result.optimizedProducts, budget, catalog)
       IN  /\ again.optimizedProducts = result.optimizedProducts
           /\ again.swapsMade = <<>>
           /\ again.savings = 0
           /\ again.totalCost = result.totalCost

\* The first call swapped and is still over budget, so the second call runs
\* the loop again rather than returning by the no-op path.
C25_Witness ==
  /\ Returned /\ ret = "fallback" /\ catalog = allProducts
  /\ result.swapsMade /= <<>>
  /\ result.totalCost > budget
  /\ Len(catalog) >= 3

\* A fallback swap and a suggestion name the same exchange.
SameSwap(made, suggestion) ==
  /\ made.original = suggestion.originalProduct
  /\ made.replacement = suggestion.suggestedProduct
  /\ made.savings = suggestion.savings

\* C29: for the same products, budget and catalog the fallback's swapsMade is
\* a prefix of OutfitGenerator.findSwapSuggestions (same original, replacement,
\* savings and order); the suggestions go on where the fallback stopped
\* because the budget was met, and are the same list when it did not stop.
C29_FallbackRefinesSuggestions ==
  InFallback =>
    LET suggestions == findSwapSuggestions(products, budget, allProducts)
    IN  /\ Len(swapsMade) <= Len(suggestions)
        /\ \A k \in 1..Len(swapsMade) : SameSwap(swapsMade[k], suggestions[k])
        /\ (Returned /\ Len(result.swapsMade) < Len(suggestions))
             => result.totalCost <= budget
        /\ (Returned /\ result.totalCost > budget)
             => Len(result.swapsMade) = Len(suggestions)

\* The fallback stopped after one swap with the budget met; the suggestions
\* list a second exchange, chosen among two equally cheap candidates.
C29_Witness ==
  /\ Returned /\ ret = "fallback"
  /\ Len(result.swapsMade) = 1
  /\ Len(findSwapSuggestions(products, budget, allProducts)) = 2
  /\ Len(SuggestionAlternatives(products[2], allProducts)) = 2

\* What C26 says of one returned outfit, for budget b.
OutfitAccounted(o, b) ==
  /\ o.totalCost = SumPrices(o.products)
  /\ o.isUnderBudget <=> (SumPrices(o.products) <= b)
  /\ o.swapSuggestions.defined => SumPrices(o.products) > b

\* C26: for every outfit returned by generateOutfits, on the AI path as on the
\* rule-based path, totalCost is the sum of the prices of its products,
\* isUnderBudget holds exactly when that sum is <= budget, and swapSuggestions
\* are present only when the outfit is over budget.
C26_OutfitAccounting ==
  \A k \in 1..Len(outfits.list) : OutfitAccounted(outfits.list[k], outfits.budget)

\* The rule-based path alone.
RuleBasedOutfitAccounting ==
  outfits.path = "rule" =>
    \A k \in 1..Len(outfits.list) :
      /\ OutfitAccounted(outfits.list[k], outfits.budget)
      /\ outfits.list[k].swapSuggestions.defined <=> ~outfits.list[k].isUnderBudget

RuleBasedWitness ==
  /\ outfits.path = "rule"
  /\ Len(outfits.list) = 2
  /\ outfits.list[2].isUnderBudget
  /\ outfits.list[1].swapSuggestions.defined
  /\ outfits.list[1].swapSuggestions.list /= <<>>

ProductSet(ps) == {ps[k].id : k \in 1..Len(ps)}

\* C27: a try-on result served from the cache goes only to a request with the
\* same base image (same user photo or same avatar), the same set of products
\* and the same occasion as the request that filled the entry; requests that
\* differ in the user photo never share a cached result.
C27_CacheNotShared ==
  \A s \in TryOns :
    (tryOn[s].pc = "done" /\ tryOn[s].fromCache) =>
      /\ tryOn[s].imageUrl.baseImage = BaseImage(tryOn[s].params)
      /\ ProductSet(tryOn[s].imageUrl.products) = ProductSet(tryOn[s].params.products)
      /\ tryOn[s].imageUrl.occasion = tryOn[s].params.occasion

\* The same, for requests that name an avatar and carry no photo.
AvatarCacheNotShared ==
  \A s \in TryOns :
    (tryOn[s].pc = "done" /\ tryOn[s].fromCache /\ tryOn[s].params.userPhoto = None) =>
      /\ tryOn[s].imageUrl.baseImage = BaseImage(tryOn[s].params)
      /\ ProductSet(tryOn[s].imageUrl.products) = ProductSet(tryOn[s].params.products)
      /\ tryOn[s].imageUrl.occasion = tryOn[s].params.occasion

\* C30: the image cache never holds more than 100 entries; when a result
\* for a key not in the cache is cached while the cache is full, exactly the
\* oldest entry goes and the new one is added last; and a cache hit returns the
\* stored image at once, without generating and without changing the cache.
C30_CacheBounded ==
  /\ [](Len(imageCache) <= maxCacheSize)
  /\ [][\A s \in TryOns :
          (tryOn[s].pc = "generating" /\ tryOn'[s].pc = "done"
             /\ CacheIndex(imageCache, getCacheKey(tryOn[s].params)) = 0) =>
            LET entry == [key |-> getCacheKey(tryOn[s].params),
                          imageUrl |-> tryOn'[s].imageUrl]
            IN  imageCache' =
                  IF Len(imageCache) = maxCacheSize
                  THEN Append(Tail(imageCache), entry)
                  ELSE Append(imageCache, entry)]_vars
  /\ [][\A s \in TryOns :
          (tryOn[s].pc = "idle" /\ tryOn'[s].pc /= "idle") =>
            LET at == CacheIndex(imageCache, getCacheKey(tryOn'[s].params))
            IN  /\ imageCache' = imageCache
                /\ IF at /= 0
                   THEN /\ tryOn'[s].pc = "done"
                        /\ tryOn'[s].fromCache
                        /\ tryOn'[s].imageUrl = imageCache[at].imageUrl
                   ELSE tryOn'[s].pc = "generating"]_vars
  /\ [][\A s \in TryOns :
          (tryOn[s].pc = "generating" /\ tryOn'[s].pc = "done") =>
            ~tryOn'[s].fromCache]_vars

\* The cache is full, its oldest entry of earlier traffic has been evicted for
\* a new key, and a request is being answered from the cache.
C30_Witness ==
  /\ Len(imageCache) = maxCacheSize
  /\ imageCache[1].key.baseId = Avatar(102)
  /\ \E s \in TryOns : tryOn[s].pc = "done" /\ tryOn[s].fromCache

\* What the tables say of the request in hand.
Authenticated == route.userId /= NoSession
Onboarded == route.userId \in DOMAIN Users /\ Users[route.userId]
OwnOutfit == route.id \in DOMAIN Outfits /\ Outfits[route.id] = route.userId

====
